---- MODULE Spec2Model ----
(***************************************************************************)
(* A model of four parts of devsnek/discord.js:                            *)
(*   - RESTManager (the REST dispatcher: route -> request handler map,     *)
(*     promise-returning request/push, destroy);                           *)
(*   - PresencesReplaceHandler (fan-out of a bulk presence frame);         *)
(*   - MessageEmbed.addField / attachFile;                                 *)
(*   - CommandInteraction.reply / Interaction.reply.                       *)
(* Each part has its own specification (Spec, SpecPresence, SpecEmbed,     *)
(* SpecReply);                                                             *)
(* the variables of the other parts stay at their initial values.          *)
(***************************************************************************)
EXTENDS Integers, Sequences, FiniteSets, TLC

VARIABLES
  \* ---- RESTManager ----
  apiRequestMethod,     \* client.options.apiRequestMethod
  handlers,             \* this.handlers: route -> handler (index into hs)
  hs,                   \* the RequestHandler objects created so far
  items,                \* the queued items / promises made by push, in call order
  globallyRateLimited,  \* this.globallyRateLimited
  \* history of the REST part
  created,              \* route -> number of handlers constructed for it
  requestCalls,         \* route -> number of request() calls made on it
  destroyCalls,         \* number of RESTManager.destroy() calls
  firstCall,            \* per item: the first continuation invocation, or <<>>
  recalled,             \* a continuation of an already settled item was invoked
  \* ---- PresencesReplaceHandler ----
  pFrames,              \* the packet.d lists handle() was called with, in order
  pPc,                  \* "idle", or "loop" while handle() is running
  pIdx,                 \* position of the for-of loop in the current list
  pLog,                 \* the calls made to the PRESENCE_UPDATE handler, in order
  \* ---- MessageEmbed ----
  embed,                \* the embed's fields list (or null) and file
  added,                \* number of fields pushed by addField
  eCall,                \* the last call made on the embed, and how it ended
  \* ---- CommandInteraction / Interaction reply ----
  rPc,                  \* where the running reply() is: "idle", an await, "done", "thrown"
  rCall,                \* the arguments of the running reply() and what they resolve to
  rLog,                 \* what the running reply() has called so far, in order
  rError,               \* the error the last reply() threw, or "none"
  rClientID,            \* client.interactionClient.clientID
  rCount                \* number of reply() calls made

restVars == <<apiRequestMethod, handlers, hs, items, globallyRateLimited,
              created, requestCalls, destroyCalls, firstCall, recalled>>

presVars == <<pFrames, pPc, pIdx, pLog>>

embedVars == <<embed, added, eCall>>

replyVars == <<rPc, rCall, rLog, rError, rClientID, rCount>>

vars == <<restVars, presVars, embedVars, replyVars>>

\* ---------------------------------------------------------------- bounds
MaxRequests == 3
MaxDestroys == 1

\* ---------------------------------------------------------------- inputs
RequestMethods == {"sequential", "burst", "other"}
Urls == {"/channels/1/messages/10", "/channels/1/messages/11", "/channels/2/messages/10"}
Bodies == {"b1", "b2"}
Errors == {"e1"}
\* values a continuation may be handed when it is invoked again
LateValues == {"b3"}

\* APIRequest's route: the url with the minor id stripped.
Route(url) ==
  CASE url = "/channels/1/messages/10" -> "/channels/1/messages/:id"
    [] url = "/channels/1/messages/11" -> "/channels/1/messages/:id"
    [] url = "/channels/2/messages/10" -> "/channels/2/messages/:id"

Routes == {Route(u) : u \in Urls}

\* new APIRequest(this, method, url, options), kept by its route
APIRequest(url) == [route |-> Route(url)]

RECURSIVE SumOver(_, _)
SumOver(f, S) ==
  IF S = {} THEN 0
  ELSE LET x == CHOOSE y \in S : TRUE IN f[x] + SumOver(f, S \ {x})

TotalRequests == SumOver(requestCalls, Routes)

\* ------------------------------------------------------------ RESTManager

\* constructor
InitRest ==
  /\ apiRequestMethod \in RequestMethods
  /\ handlers = << >>
  /\ hs = << >>
  /\ items = << >>
  /\ globallyRateLimited = FALSE
  /\ created = [r \in Routes |-> 0]
  /\ requestCalls = [r \in Routes |-> 0]
  /\ destroyCalls = 0
  /\ firstCall = << >>
  /\ recalled = FALSE

\* getRequestHandler(): the handler class, or "throw"
getRequestHandler ==
  CASE apiRequestMethod = "sequential" -> "Sequential"
    [] apiRequestMethod = "burst" -> "Burst"
    [] OTHER -> "throw"

\* new RequestHandlerType(this, route)
NewHandler(type, route) ==
  [type |-> type, route |-> route, queue |-> << >>, inflight |-> {},
   pushed |-> << >>, destroyed |-> 0, pushedDestroyed |-> FALSE]

\* handler.push(item): the handler appends the item to its queue
HandlerPush(h, i) ==
  [h EXCEPT !.queue = Append(@, i), !.pushed = Append(@, i),
            !.pushedDestroyed = (@ \/ h.destroyed > 0)]

\* handler.destroy()
HandlerDestroy(h) == [h EXCEPT !.destroyed = @ + 1]

\* the promise made by push: pending, with its resolve/reject handed to the handler
NewPromise(h, apiRequest) ==
  [request |-> apiRequest, handler |-> h, state |-> "pending", value |-> "none"]

\* variant: the promise is made already resolved
NewPromiseSettled(h, apiRequest) ==
  [request |-> apiRequest, handler |-> h, state |-> "resolved", value |-> "none"]

\* variant: every call of a continuation overwrites the outcome
SettleAlways(its, i, kind, v) ==
  [its EXCEPT ![i].state = kind, ![i].value = v]

\* the resolve / reject continuation of item i, called with v: a promise
\* settles on the first call only
Settle(its, i, kind, v) ==
  IF its[i].state = "pending"
  THEN [its EXCEPT ![i].state = kind, ![i].value = v]
  ELSE its

\* variant: the lookup never finds the route's handler
HasHandlerNever(hmap, route) == FALSE

\* this.handlers[route] is set: the route already has a handler
HasHandler(hmap, route) == route \in DOMAIN hmap

\* variant: every request goes to the handler created first
HandlerForFirst(hmap, route) == 1

\* this.handlers[apiRequest.route], the handler a request is pushed into
HandlerFor(hmap, route) == hmap[route]

\* variant: push settles the promise itself
pushSettled(hsx, h, apiRequest) ==
  /\ items' = Append(items, NewPromiseSettled(h, apiRequest))
  /\ hs' = [hsx EXCEPT ![h] = HandlerPush(@, Len(items) + 1)]
  /\ firstCall' = Append(firstCall, << >>)
  /\ UNCHANGED recalled

\* push(handler, apiRequest), on the handler objects hsx
push(hsx, h, apiRequest) ==
  /\ items' = Append(items, NewPromise(h, apiRequest))
  /\ hs' = [hsx EXCEPT ![h] = HandlerPush(@, Len(items) + 1)]
  /\ firstCall' = Append(firstCall, << >>)
  /\ UNCHANGED recalled

\* request(method, url, options)
request(url) ==
  LET apiRequest == APIRequest(url)
      route == apiRequest.route
      make == ~HasHandler(handlers, route)
  IN
  /\ TotalRequests < MaxRequests
  /\ requestCalls' = [requestCalls EXCEPT ![route] = @ + 1]
  /\ IF make /\ getRequestHandler = "throw"
     THEN UNCHANGED <<handlers, hs, items, created, firstCall, recalled>>
     ELSE LET hsx == IF make THEN Append(hs, NewHandler(getRequestHandler, route)) ELSE hs
              hmap == IF make
                      THEN [r \in DOMAIN handlers \cup {route} |->
                              IF r = route THEN Len(hs) + 1 ELSE handlers[r]]
                      ELSE handlers
          IN /\ handlers' = hmap
             /\ created' = IF make THEN [created EXCEPT ![route] = @ + 1] ELSE created
             /\ push(hsx, HandlerFor(hmap, route), apiRequest)
  /\ UNCHANGED <<apiRequestMethod, globallyRateLimited, destroyCalls>>
  /\ UNCHANGED <<presVars, embedVars, replyVars>>

\* variant: destroy() also clears the global gate
destroyClearsGate ==
  /\ destroyCalls < MaxDestroys
  /\ destroyCalls' = destroyCalls + 1
  /\ hs' = [h \in DOMAIN hs |->
              IF \E r \in DOMAIN handlers : handlers[r] = h
              THEN HandlerDestroy(hs[h]) ELSE hs[h]]
  /\ globallyRateLimited' = FALSE
  /\ UNCHANGED <<apiRequestMethod, handlers, items, created, requestCalls,
                 firstCall, recalled>>
  /\ UNCHANGED <<presVars, embedVars, replyVars>>

\* variant: destroy() also empties the route map
destroyForgetsHandlers ==
  /\ destroyCalls < MaxDestroys
  /\ destroyCalls' = destroyCalls + 1
  /\ hs' = [h \in DOMAIN hs |->
              IF \E r \in DOMAIN handlers : handlers[r] = h
              THEN HandlerDestroy(hs[h]) ELSE hs[h]]
  /\ handlers' = << >>
  /\ UNCHANGED <<apiRequestMethod, items, globallyRateLimited, created, requestCalls,
                 firstCall, recalled>>
  /\ UNCHANGED <<presVars, embedVars, replyVars>>

\* destroy()
destroy ==
  /\ destroyCalls < MaxDestroys
  /\ destroyCalls' = destroyCalls + 1
  /\ hs' = [h \in DOMAIN hs |->
              IF \E r \in DOMAIN handlers : handlers[r] = h
              THEN HandlerDestroy(hs[h]) ELSE hs[h]]
  /\ UNCHANGED <<apiRequestMethod, handlers, items, globallyRateLimited, created,
                 requestCalls, firstCall, recalled>>
  /\ UNCHANGED <<presVars, embedVars, replyVars>>

\* --------------------------------------------------------- RequestHandler
\* The handler classes (RequestHandlers/Sequential, RequestHandlers/Burst).

\* a continuation of item i is invoked with (kind, v)
Invoke(i, kind, v) ==
  /\ items' = Settle(items, i, kind, v)
  /\ firstCall' = IF firstCall[i] = << >> THEN [firstCall EXCEPT ![i] = <<kind, v>>]
                  ELSE firstCall
  /\ recalled' = (recalled \/ firstCall[i] # << >>)

\* the handler takes the next queued item and sends it
Execute(h) ==
  /\ hs[h].queue # << >>
  /\ ~globallyRateLimited
  /\ hs[h].type = "Sequential" => hs[h].inflight = {}
  /\ hs' = [hs EXCEPT ![h].queue = Tail(@), ![h].inflight = @ \cup {Head(hs[h].queue)}]
  /\ UNCHANGED <<apiRequestMethod, handlers, items, globallyRateLimited, created,
                 requestCalls, destroyCalls, firstCall, recalled>>
  /\ UNCHANGED <<presVars, embedVars, replyVars>>

\* a 2xx response: the item is resolved with the body
RespondOk(h, i, body) ==
  /\ i \in hs[h].inflight
  /\ hs' = [hs EXCEPT ![h].inflight = @ \ {i}]
  /\ Invoke(i, "resolved", body)
  /\ UNCHANGED <<apiRequestMethod, handlers, globallyRateLimited, created,
                 requestCalls, destroyCalls>>
  /\ UNCHANGED <<presVars, embedVars, replyVars>>

\* a non-retryable error (or an exhausted retry budget): the item is rejected
RespondFail(h, i, err) ==
  /\ i \in hs[h].inflight
  /\ hs' = [hs EXCEPT ![h].inflight = @ \ {i}]
  /\ Invoke(i, "rejected", err)
  /\ UNCHANGED <<apiRequestMethod, handlers, globallyRateLimited, created,
                 requestCalls, destroyCalls>>
  /\ UNCHANGED <<presVars, embedVars, replyVars>>

\* a 429 (global or not) or a 5xx: the item goes back to the front of the queue
RespondRetry(h, i, kind) ==
  /\ i \in hs[h].inflight
  /\ hs' = [hs EXCEPT ![h].inflight = @ \ {i}, ![h].queue = <<i>> \o @]
  /\ globallyRateLimited' = IF kind = "429global" THEN TRUE ELSE globallyRateLimited
  /\ UNCHANGED <<apiRequestMethod, handlers, items, created, requestCalls,
                 destroyCalls, firstCall, recalled>>
  /\ UNCHANGED <<presVars, embedVars, replyVars>>

\* the global retry-after elapses
ClearGlobal ==
  /\ globallyRateLimited
  /\ globallyRateLimited' = FALSE
  /\ UNCHANGED <<apiRequestMethod, handlers, hs, items, created, requestCalls,
                 destroyCalls, firstCall, recalled>>
  /\ UNCHANGED <<presVars, embedVars, replyVars>>

\* a continuation of an already settled item is invoked again
Resettle(i, kind, v) ==
  /\ items[i].state # "pending"
  /\ Invoke(i, kind, v)
  /\ UNCHANGED <<apiRequestMethod, handlers, hs, globallyRateLimited, created,
                 requestCalls, destroyCalls>>
  /\ UNCHANGED <<presVars, embedVars, replyVars>>

NextRest ==
  \/ \E url \in Urls : request(url)
  \/ destroy
  \/ \E h \in DOMAIN hs : Execute(h)
  \/ \E h \in DOMAIN hs, i \in DOMAIN items, b \in Bodies : RespondOk(h, i, b)
  \/ \E h \in DOMAIN hs, i \in DOMAIN items, e \in Errors : RespondFail(h, i, e)
  \/ \E h \in DOMAIN hs, i \in DOMAIN items, k \in {"429", "429global", "5xx"} :
       RespondRetry(h, i, k)
  \/ ClearGlobal
  \/ \E i \in DOMAIN items, k \in {"resolved", "rejected"}, v \in LateValues :
       Resettle(i, k, v)

\* ------------------------------------------------ PresencesReplaceHandler
MaxFrames == 2
MaxRecords == 2
Presences == {"p1", "p2"}

\* the lists a PRESENCES_REPLACE packet may carry in d
RECURSIVE SeqsUpTo(_, _)
SeqsUpTo(S, n) ==
  IF n = 0 THEN {<< >>}
  ELSE LET shorter == SeqsUpTo(S, n - 1)
       IN shorter \cup {Append(q, x) : q \in {t \in shorter : Len(t) = n - 1}, x \in S}

PacketLists == SeqsUpTo(Presences, MaxRecords)

InitPresence ==
  /\ pFrames = << >>
  /\ pPc = "idle"
  /\ pIdx = 0
  /\ pLog = << >>

\* this.packetManager.handlers[WSEvents.PRESENCE_UPDATE](packet), recorded
PresenceUpdate(log, frame, packet) == Append(log, [frame |-> frame, packet |-> packet])

\* { d: data }
SynthPacket(data) == [d |-> data]

\* variant: the loop stops one record early
LoopDoneEarly(d, i) == i > Len(d) - 1

\* the for-of loop over packet.d is exhausted at position i
LoopDone(d, i) == i > Len(d)

\* handle(packet) is entered: the loop starts at the first record
handleEnter(d) ==
  /\ pPc = "idle"
  /\ Len(pFrames) < MaxFrames
  /\ pFrames' = Append(pFrames, d)
  /\ pPc' = "loop"
  /\ pIdx' = 1
  /\ UNCHANGED pLog
  /\ UNCHANGED <<restVars, embedVars, replyVars>>

\* one iteration of the loop: the PRESENCE_UPDATE handler is called with { d: data }
handleIterate ==
  LET d == pFrames[Len(pFrames)] IN
  /\ pPc = "loop"
  /\ ~LoopDone(d, pIdx)
  /\ pLog' = PresenceUpdate(pLog, Len(pFrames), SynthPacket(d[pIdx]))
  /\ pIdx' = pIdx + 1
  /\ UNCHANGED <<pFrames, pPc>>
  /\ UNCHANGED <<restVars, embedVars, replyVars>>

\* the loop is over: handle returns
handleReturn ==
  /\ pPc = "loop"
  /\ LoopDone(pFrames[Len(pFrames)], pIdx)
  /\ pPc' = "idle"
  /\ pIdx' = 0
  /\ UNCHANGED <<pFrames, pLog>>
  /\ UNCHANGED <<restVars, embedVars, replyVars>>

NextPresence ==
  \/ \E d \in PacketLists : handleEnter(d)
  \/ handleIterate
  \/ handleReturn

\* ------------------------------------------------------------ MessageEmbed
MaxFields == 25
MaxNameLength == 256
MaxValueLength == 1024
MaxAdds == 2

\* a string, by its length and whether it holds a non-whitespace character
Str(len, nonblank) == [len |-> len, nonblank |-> nonblank]

\* a StringResolvable: a string, an array of strings, or any other value
\* (given by the string String(data) makes of it)
AsString(str) == [kind |-> "string", str |-> str, elems |-> << >>]
AsArray(elems) == [kind |-> "array", str |-> Str(0, FALSE), elems |-> elems]
AsOther(str) == [kind |-> "other", str |-> str, elems |-> << >>]

RECURSIVE JoinLen(_)
JoinLen(elems) ==
  IF elems = << >> THEN 0
  ELSE IF Len(elems) = 1 THEN elems[1].len
  ELSE elems[1].len + 1 + JoinLen(Tail(elems))

\* resolveString(data): a string as it is, an array joined with '\n',
\* anything else through String(data)
resolveString(data) ==
  IF data.kind = "string" THEN data.str
  ELSE IF data.kind = "array"
  THEN Str(JoinLen(data.elems), \E k \in DOMAIN data.elems : data.elems[k].nonblank)
  ELSE data.str

\* names: '', ' ', a 256 and a 257 character name, [], undefined
NameInputs ==
  { AsString(Str(0, FALSE)), AsString(Str(1, FALSE)),
    AsString(Str(MaxNameLength, TRUE)), AsString(Str(MaxNameLength + 1, TRUE)),
    AsArray(<< >>), AsOther(Str(9, TRUE)) }

\* values: '', a 1024 and a 1025 character value, ['a', ' ']
ValueInputs ==
  { AsString(Str(0, FALSE)),
    AsString(Str(MaxValueLength, TRUE)), AsString(Str(MaxValueLength + 1, TRUE)),
    AsArray(<<Str(1, TRUE), Str(1, FALSE)>>) }

\* the file argument of attachFile: a path string ('' included) or FileOptions
FileInputs == {"", "a.png", "b.png"}
NoFile == "undefined"

\* JavaScript truthiness of this.file
Truthy(f) == f \notin {NoFile, ""}

DefaultField == [name |-> Str(1, TRUE), value |-> Str(1, TRUE), inline |-> FALSE]

\* data.fields as setup may receive it: absent, or a list of at most 25 fields
SetupFieldCounts == {0, MaxFields - 1, MaxFields}

\* setup(data): this.fields = data.fields || null; this.file is not set
SetupEmbed(hasFields, n) ==
  [fieldsNull |-> ~hasFields,
   fields |-> IF hasFields THEN [k \in 1..n |-> DefaultField] ELSE << >>,
   file |-> NoFile]

NoCall == [op |-> "none", name |-> Str(0, FALSE), value |-> Str(0, FALSE),
           file |-> NoFile, first |-> FALSE, attachCalled |-> FALSE,
           before |-> SetupEmbed(FALSE, 0), error |-> "none"]

InitEmbed ==
  /\ \E hasFields \in BOOLEAN, n \in SetupFieldCounts :
       /\ (~hasFields => n = 0)
       /\ embed = SetupEmbed(hasFields, n)
  /\ added = 0
  /\ eCall = NoCall

\* the error addField throws for (name, value) on embed e, or "none"
AddFieldError(e, name, value) ==
  IF e.fieldsNull THEN "TypeError"
  ELSE IF Len(e.fields) >= MaxFields THEN "RangeError"
  ELSE IF name.len > MaxNameLength THEN "RangeError"
  ELSE IF ~name.nonblank THEN "RangeError"
  ELSE IF value.len > MaxValueLength THEN "RangeError"
  ELSE IF ~value.nonblank THEN "RangeError"
  ELSE "none"

\* addField(name, value, inline)
addField(nameIn, valueIn, inline) ==
  LET name == resolveString(nameIn)
      value == resolveString(valueIn)
      err == AddFieldError(embed, name, value)
  IN
  /\ added < MaxAdds
  /\ IF err = "none"
     THEN /\ embed' = [embed EXCEPT !.fields =
                         Append(@, [name |-> name, value |-> value, inline |-> inline])]
          /\ added' = added + 1
     ELSE UNCHANGED <<embed, added>>
  /\ eCall' = [op |-> "addField", name |-> name, value |-> value, file |-> NoFile,
               first |-> FALSE, attachCalled |-> eCall.attachCalled,
               before |-> embed, error |-> err]
  /\ UNCHANGED <<restVars, presVars, replyVars>>

\* variant: the guard never sees a file
FileAttachedNever(f) == FALSE

\* if (this.file): a file is already attached
FileAttached(f) == Truthy(f)

\* attachFile(file)
attachFile(file) ==
  LET err == IF FileAttached(embed.file) THEN "RangeError" ELSE "none" IN
  /\ IF err = "none"
     THEN embed' = [embed EXCEPT !.file = file]
     ELSE UNCHANGED embed
  /\ eCall' = [op |-> "attachFile", name |-> Str(0, FALSE), value |-> Str(0, FALSE),
               file |-> file, first |-> ~eCall.attachCalled, attachCalled |-> TRUE,
               before |-> embed, error |-> err]
  /\ UNCHANGED added
  /\ UNCHANGED <<restVars, presVars, replyVars>>

NextEmbed ==
  \/ \E n \in NameInputs, v \in ValueInputs, inline \in BOOLEAN : addField(n, v, inline)
  \/ \E f \in FileInputs : attachFile(f)

\* ------------------------------------------- CommandInteraction / Interaction
MaxReplies == 2

Classes == {"CommandInteraction", "Interaction"}
ContentKinds == {"string", "array"}
MessageData == {"d1", "d2"}
MessageFiles == {<< >>, <<"f1">>}
ClientIDs == {"app1"}
NoClientID == "undefined"

\* apiMessage.resolveData(), then resolveFiles(): the data (its content a string
\* or an array of chunks) and the files
Resolved(content, data, files) ==
  [data |-> [content |-> content, body |-> data], files |-> files]

NoResolved == Resolved("string", "none", << >>)

\* the calls reply() makes on its collaborators
SyncReply(resolved, ret) ==
  [kind |-> "syncHandle.reply", resolved |-> resolved, ret |-> ret,
   clientID |-> NoClientID, auth |-> TRUE]
Lookup ==
  [kind |-> "applications.get", resolved |-> NoResolved, ret |-> FALSE,
   clientID |-> NoClientID, auth |-> TRUE]
WebhookPost(clientID, resolved) ==
  [kind |-> "webhooks.post", resolved |-> resolved, ret |-> FALSE,
   clientID |-> clientID, auth |-> FALSE]

NoReply == [class |-> "none", isAPIMessage |-> FALSE, resolved |-> NoResolved]

InitReply ==
  /\ rPc = "idle"
  /\ rCall = NoReply
  /\ rLog = << >>
  /\ rError = "none"
  /\ rClientID \in ClientIDs \cup {NoClientID}
  /\ rCount = 0

\* Interaction.js requires Base, InteractionType and Snowflake only: the name
\* APIMessage its reply() tests content against is not defined there
APIMessageDefined(class) == class = "CommandInteraction"

\* the array check, made only on content that is not an APIMessage
TooLong(isAPIMessage, content) == ~isAPIMessage /\ content = "array"

\* reply(content, options), up to its first await
replyEnter(class, isAPIMessage, content, data, files) ==
  /\ rPc \in {"idle", "done", "thrown"}
  /\ rCount < MaxReplies
  /\ rCount' = rCount + 1
  /\ rCall' = [class |-> class, isAPIMessage |-> isAPIMessage,
               resolved |-> Resolved(content, data, files)]
  /\ rLog' = << >>
  /\ IF ~APIMessageDefined(class)
     THEN rPc' = "thrown" /\ rError' = "ReferenceError"
     ELSE IF TooLong(isAPIMessage, content)
     THEN rPc' = "thrown" /\ rError' = "Message is too long"
     ELSE rPc' = "resolveFiles" /\ rError' = "none"
  /\ UNCHANGED rClientID
  /\ UNCHANGED <<restVars, presVars, embedVars>>

\* await apiMessage.resolveFiles() rejects
resolveFilesFail ==
  /\ rPc = "resolveFiles"
  /\ rPc' = "thrown"
  /\ rError' = "resolveFiles"
  /\ UNCHANGED <<rCall, rLog, rClientID, rCount>>
  /\ UNCHANGED <<restVars, presVars, embedVars>>

\* the client ID is cached
HasClientID(id) == id # NoClientID

\* await apiMessage.resolveFiles() resolves; syncHandle.reply(resolved) returns
\* ret; on a falsy ret the application lookup or the webhook POST is started
resolveFilesDone(ret) ==
  /\ rPc = "resolveFiles"
  /\ rError' = "none"
  /\ IF ret
     THEN /\ rLog' = Append(rLog, SyncReply(rCall.resolved, ret))
          /\ rPc' = "done"
     ELSE IF HasClientID(rClientID)
     THEN /\ rLog' = rLog \o <<SyncReply(rCall.resolved, ret),
                                WebhookPost(rClientID, rCall.resolved)>>
          /\ rPc' = "post"
     ELSE /\ rLog' = rLog \o <<SyncReply(rCall.resolved, ret), Lookup>>
          /\ rPc' = "lookup"
  /\ UNCHANGED <<rCall, rClientID, rCount>>
  /\ UNCHANGED <<restVars, presVars, embedVars>>

\* await client.api.oauth2.applications('@me').get() rejects
lookupFail ==
  /\ rPc = "lookup"
  /\ rPc' = "thrown"
  /\ rError' = "applications.get"
  /\ UNCHANGED <<rCall, rLog, rClientID, rCount>>
  /\ UNCHANGED <<restVars, presVars, embedVars>>

\* the lookup resolves with the application: the webhook POST is started
lookupDone(id) ==
  /\ rPc = "lookup"
  /\ rLog' = Append(rLog, WebhookPost(id, rCall.resolved))
  /\ rPc' = "post"
  /\ UNCHANGED <<rCall, rError, rClientID, rCount>>
  /\ UNCHANGED <<restVars, presVars, embedVars>>

\* await client.api.webhooks(clientID, token).post(...) rejects
postFail ==
  /\ rPc = "post"
  /\ rPc' = "thrown"
  /\ rError' = "webhooks.post"
  /\ UNCHANGED <<rCall, rLog, rClientID, rCount>>
  /\ UNCHANGED <<restVars, presVars, embedVars>>

\* the POST resolves: reply() returns
postDone ==
  /\ rPc = "post"
  /\ rPc' = "done"
  /\ UNCHANGED <<rCall, rLog, rError, rClientID, rCount>>
  /\ UNCHANGED <<restVars, presVars, embedVars>>

NextReply ==
  \/ \E class \in Classes, isAPIMessage \in BOOLEAN, content \in ContentKinds,
        data \in MessageData, files \in MessageFiles :
       replyEnter(class, isAPIMessage, content, data, files)
  \/ resolveFilesFail
  \/ \E ret \in BOOLEAN : resolveFilesDone(ret)
  \/ lookupFail
  \/ \E id \in ClientIDs : lookupDone(id)
  \/ postFail
  \/ postDone

\* ---------------------------------------------------------- specifications
\* the parts a specification does not exercise, at rest
RestAtRest == InitRest /\ apiRequestMethod = "sequential"
EmbedAtRest == embed = SetupEmbed(FALSE, 0) /\ added = 0 /\ eCall = NoCall
ReplyAtRest == InitReply /\ rClientID = NoClientID

Init == InitRest /\ InitPresence /\ EmbedAtRest /\ ReplyAtRest

Next == NextRest

Spec == Init /\ [][Next]_vars

InitP == RestAtRest /\ InitPresence /\ EmbedAtRest /\ ReplyAtRest

SpecPresence == InitP /\ [][NextPresence]_vars

InitE == RestAtRest /\ InitPresence /\ InitEmbed /\ ReplyAtRest

SpecEmbed == InitE /\ [][NextEmbed]_vars

InitR == RestAtRest /\ InitPresence /\ EmbedAtRest /\ InitReply

SpecReply == InitR /\ [][NextReply]_vars

\* ------------------------------------------------------------------ claims
ValidMethod == apiRequestMethod \in {"sequential", "burst"}

HandlersOf(r) == {h \in DOMAIN hs : hs[h].route = r}

\* every queued item sits in the handler its route is mapped to, and a route's
\* handler objects are exactly the ones counted as created for it
ReusesMappedHandler ==
  /\ \A i \in DOMAIN items :
       /\ items[i].request.route \in DOMAIN handlers
       /\ items[i].handler = handlers[items[i].request.route]
  /\ \A r \in Routes :
       /\ Cardinality(HandlersOf(r)) = created[r]
       /\ (r \in DOMAIN handlers) <=> (created[r] = 1)

\* C1 as stated: at most one handler is ever created per route; the first
\* request on a route creates its handler and every later request on the route
\* reuses that handler.
C1_Original ==
  /\ \A r \in Routes : created[r] <= 1
  /\ \A r \in Routes : requestCalls[r] >= 1 => created[r] = 1
  /\ ReusesMappedHandler

\* C1 (amended): at most one handler is ever created per route; when
\* apiRequestMethod is 'sequential' or 'burst' the first request on a route
\* creates its handler and every later request on the route reuses it; with any
\* other apiRequestMethod the request throws and no handler is created.
C1_OneHandlerPerRoute ==
  /\ \A r \in Routes : created[r] <= 1
  /\ \A r \in Routes : requestCalls[r] >= 1 => (created[r] = 1 <=> ValidMethod)
  /\ ReusesMappedHandler

C1_Witness ==
  \E i, j \in DOMAIN items :
    /\ i < j
    /\ items[i].request.route = items[j].request.route
    /\ items[i].handler = items[j].handler
    /\ created[items[i].request.route] = 1
    /\ requestCalls[items[i].request.route] >= 2

\* a promise is pending until a continuation of its item is invoked, and then
\* holds the outcome of the first invocation
SettledByFirstCall ==
  \A i \in DOMAIN items :
    IF firstCall[i] = << >>
    THEN items[i].state = "pending" /\ items[i].value = "none"
    ELSE items[i].state = firstCall[i][1] /\ items[i].value = firstCall[i][2]

\* C3 as stated: every request() call returns a future, pending until the
\* handler invokes the item's resolve or reject, then settled with that outcome.
C3_Original ==
  /\ Len(items) = TotalRequests
  /\ Len(firstCall) = Len(items)
  /\ SettledByFirstCall

\* C3 (amended): every request() call that does not throw for an invalid
\* apiRequestMethod returns a future, pending until the handler invokes the
\* item's resolve or reject, then settled with exactly that outcome.
C3_SettledByHandler ==
  /\ ValidMethod => Len(items) = TotalRequests
  /\ ~ValidMethod => Len(items) = 0
  /\ Len(firstCall) = Len(items)
  /\ SettledByFirstCall

C3_Witness ==
  \E i, j, k \in DOMAIN items :
    /\ items[i].state = "pending" /\ i \in hs[items[i].handler].inflight
    /\ items[j].state = "resolved" /\ items[j].value \in Bodies
    /\ items[k].state = "rejected" /\ items[k].value \in Errors

\* C4: once a promise is settled, a further call of its item's resolve or
\* reject leaves the outcome unchanged.
C4_SettleOnce ==
  [][\A i \in DOMAIN items :
       items[i].state # "pending" =>
         /\ items'[i].state = items[i].state
         /\ items'[i].value = items[i].value]_vars

C4_Witness ==
  /\ recalled
  /\ \E i \in DOMAIN items : items[i].state = "resolved"
  /\ \E i \in DOMAIN items : items[i].state = "rejected"

\* a step in which request() was called on route r
RequestStep(r) == requestCalls'[r] = requestCalls[r] + 1

\* the step enqueued exactly one new item into the handler mapped to r and left
\* every other handler, queue and map entry as it was
EnqueuedOne(r) ==
  /\ r \in DOMAIN handlers'
  /\ Len(items') = Len(items) + 1
  /\ \A i \in DOMAIN items : items'[i] = items[i]
  /\ LET h == handlers'[r]
         n == Len(items')
         old == IF h \in DOMAIN hs THEN hs[h] ELSE [queue |-> << >>, pushed |-> << >>]
     IN /\ items'[n].handler = h
        /\ items'[n].request.route = r
        /\ hs'[h].route = r
        /\ hs'[h].queue = Append(old.queue, n)
        /\ hs'[h].pushed = Append(old.pushed, n)
        /\ DOMAIN hs' \subseteq DOMAIN hs \cup {h}
        /\ \A g \in DOMAIN hs \ {h} : hs'[g] = hs[g]
        /\ \A q \in DOMAIN handlers : q \in DOMAIN handlers' /\ handlers'[q] = handlers[q]

SameHandlerIffSameRoute ==
  \A i, j \in DOMAIN items :
    (items[i].handler = items[j].handler) <=>
      (items[i].request.route = items[j].request.route)

\* C5 as stated: request() on route r enqueues exactly one item, into the
\* handler mapped to r, leaving the other handlers unchanged; two requests
\* share a handler iff they share a route.
C5_Original ==
  /\ [][\A r \in Routes : RequestStep(r) => EnqueuedOne(r)]_vars
  /\ []SameHandlerIffSameRoute

\* C5 (amended): request() on route r, unless it throws for an invalid
\* apiRequestMethod, enqueues exactly one item, into the handler mapped to r,
\* leaving the other handlers unchanged; a throwing request enqueues nothing;
\* two requests share a handler iff they share a route.
C5_RouteIsolation ==
  /\ [][\A r \in Routes : RequestStep(r) =>
          IF ValidMethod THEN EnqueuedOne(r)
          ELSE UNCHANGED <<handlers, hs, items>>]_vars
  /\ []SameHandlerIffSameRoute

C5_Witness ==
  \E i, j, k \in DOMAIN items :
    /\ i # j
    /\ items[i].request.route = items[j].request.route
    /\ items[i].handler = items[j].handler
    /\ items[k].request.route # items[i].request.route
    /\ items[k].handler # items[i].handler

\* the item ids of route r, in call order
RECURSIVE ItemsOfRoute(_, _)
ItemsOfRoute(r, n) ==
  IF n = 0 THEN << >>
  ELSE IF items[n].request.route = r THEN Append(ItemsOfRoute(r, n - 1), n)
  ELSE ItemsOfRoute(r, n - 1)

\* C6: in 'sequential' mode the requests of a route are pushed to its handler
\* in call order, and a request never settles while an earlier request of the
\* same route is still pending.
C6_SequentialOrder ==
  /\ [](apiRequestMethod = "sequential" =>
          \A h \in DOMAIN hs : hs[h].pushed = ItemsOfRoute(hs[h].route, Len(items)))
  /\ [][apiRequestMethod = "sequential" =>
          \A j \in DOMAIN items :
            (items[j].state = "pending" /\ items'[j].state # "pending") =>
              \A i \in 1..(j - 1) :
                items[i].request.route = items[j].request.route =>
                  items[i].state # "pending"]_vars

C6_Witness ==
  /\ apiRequestMethod = "sequential"
  /\ \E i, j \in DOMAIN items :
       /\ i < j
       /\ items[i].request.route = items[j].request.route
       /\ items[i].state # "pending"
       /\ items[j].state # "pending"

\* a step of the dispatcher itself: request() or destroy()
DispatcherStep ==
  \/ \E r \in Routes : RequestStep(r)
  \/ destroyCalls' # destroyCalls
  \/ Len(items') # Len(items)

\* a step in which a handler put an in-flight item back after a rate-limit answer
RateLimitAnswer ==
  \E h \in DOMAIN hs, i \in DOMAIN items :
    /\ i \in hs[h].inflight
    /\ i \notin hs'[h].inflight
    /\ hs'[h].queue = <<i>> \o hs[h].queue

\* C7: globallyRateLimited is unset at construction; request(), push() and
\* destroy() never write it; it is set only on a rate-limit answer.
C7_GateFrame ==
  /\ [](Len(items) = 0 => ~globallyRateLimited)
  /\ [][DispatcherStep => globallyRateLimited' = globallyRateLimited]_vars
  /\ [][(~globallyRateLimited /\ globallyRateLimited') => RateLimitAnswer]_vars

C7_Witness ==
  /\ globallyRateLimited
  /\ destroyCalls >= 1
  /\ \E h \in DOMAIN hs : hs[h].destroyed >= 1 /\ hs[h].pushedDestroyed
  /\ \E i \in DOMAIN items : items[i].state # "pending"

\* C10: destroy() calls destroy once on every handler created so far and on
\* nothing else, changes no entry of the route map, a handler stays mapped to
\* its route for good, and a request() after destroy() on the route goes into
\* the same, destroyed handler.
C10_DestroyKeepsMap ==
  /\ [][destroyCalls' = destroyCalls + 1 =>
          /\ DOMAIN hs' = DOMAIN hs
          /\ \A h \in DOMAIN hs : hs'[h] = [hs[h] EXCEPT !.destroyed = @ + 1]
          /\ handlers' = handlers]_vars
  /\ [][\A r \in DOMAIN handlers :
          r \in DOMAIN handlers' /\ handlers'[r] = handlers[r]]_vars
  /\ [][\A h \in DOMAIN hs :
          hs'[h].destroyed # hs[h].destroyed => destroyCalls' = destroyCalls + 1]_vars
  /\ [](\A i \in DOMAIN items :
          /\ items[i].request.route \in DOMAIN handlers
          /\ items[i].handler = handlers[items[i].request.route])
  /\ [](\A h \in DOMAIN hs : hs[h].pushedDestroyed => hs[h].destroyed >= 1)

C10_Witness ==
  \E i, j \in DOMAIN items :
    /\ i < j
    /\ items[i].handler = items[j].handler
    /\ hs[items[j].handler].pushedDestroyed
    /\ hs[items[j].handler].destroyed >= 1
    /\ hs[items[j].handler].pushed = <<i, j>>

\* the calls frame k must have produced once its first upto records are done
ExpectedCalls(k, upto) ==
  [j \in 1..upto |-> [frame |-> k, packet |-> [d |-> pFrames[k][j]]]]

RECURSIVE ExpectedLog(_)
ExpectedLog(n) ==
  IF n = 0 THEN << >>
  ELSE ExpectedLog(n - 1) \o ExpectedCalls(n, Len(pFrames[n]))

\* C2: a frame with N records gives exactly N calls of the PRESENCE_UPDATE
\* handler, one per record, in the list's order, each with the packet { d: record },
\* all of them before handle returns and so before the next frame is handled.
C2_FanOutInOrder ==
  LET n == Len(pFrames) IN
  IF pPc = "idle"
  THEN pLog = ExpectedLog(n)
  ELSE /\ n >= 1
       /\ pIdx \in 1..(Len(pFrames[n]) + 1)
       /\ pLog = ExpectedLog(n - 1) \o ExpectedCalls(n, pIdx - 1)

C2_Witness ==
  /\ pPc = "idle"
  /\ Len(pFrames) = 2
  /\ pFrames[1] = <<"p2", "p1">>
  /\ Len(pFrames[2]) = 1
  /\ Len(pLog) = 3

\* the call recorded in eCall is one the claim says must throw a RangeError
MustThrowRange(c) ==
  \/ (~c.before.fieldsNull /\ Len(c.before.fields) >= 25)
  \/ c.name.len = 0 \/ c.name.len > 256
  \/ c.value.len = 0 \/ c.value.len > 1024

\* C8 as stated: the fields list never exceeds 25 entries through addField, and
\* an addField call on a full list, or with an empty or over-long name or value,
\* throws a RangeError and leaves the list unchanged.
C8_Original ==
  /\ ~embed.fieldsNull => Len(embed.fields) <= 25
  /\ (eCall.op = "addField" /\ MustThrowRange(eCall)) =>
       /\ eCall.error = "RangeError"
       /\ embed.fields = eCall.before.fields

\* C9 as stated: the first attachFile call stores its file; every later call
\* throws a RangeError and leaves the stored file unchanged.
C9_Original ==
  eCall.op = "attachFile" =>
    IF eCall.first
    THEN eCall.error = "none" /\ embed.file = eCall.file
    ELSE eCall.error = "RangeError" /\ embed.file = eCall.before.file

\* C9 (amended): the first attachFile call stores its file; a later call throws
\* a RangeError and leaves the stored file unchanged when the stored file is
\* truthy; when the stored file is falsy ('' was attached) the later call
\* stores its file instead.
C9_OneTruthyFile ==
  /\ [](eCall.op = "attachFile" =>
          IF eCall.first \/ eCall.before.file \in {NoFile, ""}
          THEN eCall.error = "none" /\ embed.file = eCall.file
          ELSE eCall.error = "RangeError" /\ embed.file = eCall.before.file)
  /\ [](eCall.op = "attachFile" /\ eCall.first => eCall.before.file = NoFile)
  /\ [][embed.file \notin {NoFile, ""} => embed'.file = embed.file]_vars

C9_Witness ==
  /\ eCall.op = "attachFile"
  /\ ~eCall.first
  /\ eCall.error = "RangeError"
  /\ eCall.file = "b.png"
  /\ embed.file = "a.png"

\* what the running reply() was called with resolves to this
ReplyResolved == rCall.resolved

\* the calls of a reply delivered by the sync handle alone
SyncPath == <<SyncReply(ReplyResolved, TRUE)>>

\* the calls of a reply delivered by the webhook: the handle declines, the
\* application is looked up only when no client ID is cached, and one POST
\* without authorization carries the resolved data and files
WebhookPath ==
  IF HasClientID(rClientID)
  THEN {<<SyncReply(ReplyResolved, FALSE), WebhookPost(rClientID, ReplyResolved)>>}
  ELSE {<<SyncReply(ReplyResolved, FALSE), Lookup, WebhookPost(id, ReplyResolved)>> :
          id \in ClientIDs}

DeliveredByOnePath ==
  rPc = "done" => (rLog = SyncPath \/ rLog \in WebhookPath)

ArrayContentThrowsFirst ==
  (rCall.class # "none" /\ ReplyResolved.data.content = "array")
    => (rPc = "thrown" /\ rLog = << >>)

\* C11: a reply that succeeds was delivered through exactly one path: the sync
\* handle returned a truthy value and no request was issued, or it returned a
\* falsy value and exactly one unauthenticated webhook POST carrying the
\* resolved data and files was issued, after an application lookup only when
\* no client ID is cached; and a reply whose content resolves to an array has
\* thrown before the sync handle or the webhook was called.
C11_Original == DeliveredByOnePath /\ ArrayContentThrowsFirst

====
